---------------------------- MODULE Spec2Model ----------------------------
(***************************************************************************)
(* A model of the pvoutput download orchestrator                          *)
(* (pvoutput/pvoutput.py, pvoutput/utils.py, pvoutput/daterange.py).      *)
(*                                                                         *)
(* Calendar dates are integers (day numbers); a timedelta is a number of   *)
(* days.  A DateRange is a record [start_date, end_date].  Python's None   *)
(* is the record None.                                                     *)
(***************************************************************************)
EXTENDS Integers, Sequences, FiniteSets, TLC

VARIABLES
    remote,      \* the service: remote[s] is the set of days system s has data for
    req_start_date,  \* argument of download_multiple_systems_to_disk
    req_end_date,    \* argument of download_multiple_systems_to_disk
    store,       \* the HDF5 file output_filename
    run,         \* number of invocations of download_multiple_systems_to_disk so far
    mode,        \* "batch" | "status": use_get_batch_status_if_available of this invocation
    outcome,     \* "running", "completed", "interrupted" or the exception raised
    prev,        \* mode and outcome of the invocation before this one
    pc,          \* position inside the running invocation
    loop_i,           \* number of system ids the for loop has taken so far
    date_ranges_to_download, \* date_ranges_to_download of the current system
    worker_dates,       \* worker_dates the worker loop still has to request
    total_rows,  \* total_rows of _download_multiple_worker
    df,  \* rows held in memory between two writes to the store
    nreq,        \* number of requests sent to the service by this invocation
    visited,     \* system ids the for loop has taken in this invocation
    faults,      \* number of responses so far that were not the nominal one
    killed_before_de_dupe,  \* systems whose appended rows the last kill left without
                            \* their sort_and_de_dupe_pv_system call
    fin,         \* harness: the arguments of the function under test
    fop,         \* harness: "none" before the call, the function's name after it
    fout         \* harness: the value the call returned

hvars == <<fin, fop, fout>>
ovars == <<remote, req_start_date, req_end_date, store, run, mode, outcome, prev, pc, loop_i,
           date_ranges_to_download, worker_dates, total_rows, df, nreq, visited, faults,
           killed_before_de_dupe>>
vars == <<ovars, hvars>>

-----------------------------------------------------------------------------
(* Bounds of the model *)

\* Dates of the small calendar used for day-level functions: 0..MaxDay
MaxDay == 5
\* Longest list of dates handed to get_date_range_list
MaxLen == 4
\* The sparse calendar for year-level functions spans years 0..MaxYears
MaxYears == 1
\* Longest list of DateRanges handed to merge_date_ranges_to_years
MaxRanges == 2
\* The day on which the download runs; the service has data for days 1..Today
Today == 3
\* Number of invocations of download_multiple_systems_to_disk in a behaviour
MaxRuns == 2
\* Number of responses in a behaviour that are not the nominal one
MaxFaults == 2
\* largest max_retries, and number of answers, of a get_batch_status call
MaxPolls == 3

-----------------------------------------------------------------------------
(* Program constants *)

\* timedelta(days=365): the batch window of getbatchstatus
DAYS_365 == 365

-----------------------------------------------------------------------------
(* Generic helpers *)

None == [none |-> TRUE]

\* pd.NaT, a date that is null: a value below every calendar date (pandas
\* keeps it as the least integer of its representation)
NaT == -2147483647

Max2(x, y) == IF x >= y THEN x ELSE y
Min2(x, y) == IF x <= y THEN x ELSE y

RECURSIVE SeqMap_end_date(_)
SeqMap_end_date(s) ==
    IF s = <<>> THEN <<>> ELSE <<Head(s).end_date>> \o SeqMap_end_date(Tail(s))

\* Variant of Reverse that leaves the order as it is
Reverse_identity(s) == s

Reverse(s) == [i \in 1..Len(s) |-> s[Len(s) + 1 - i]]

\* np.sort on a list of dates: ascending, duplicates kept
np_sort(s) == SortSeq(s, LAMBDA x, y : x < y)

\* list(a_set) followed by np.sort: the elements of a set in ascending order
RECURSIVE SortedSeqOfSet(_)
SortedSeqOfSet(S) ==
    IF S = {} THEN <<>>
    ELSE LET m == CHOOSE x \in S : \A y \in S : x <= y
         IN <<m>> \o SortedSeqOfSet(S \ {m})

-----------------------------------------------------------------------------
(* pvoutput/daterange.py *)

DateRange(start_date, end_date) == [start_date |-> start_date, end_date |-> end_date]

\* Variant of intersection that also accepts an overlap of zero length
intersection_nonstrict(self, other) ==
    LET new_start == Max2(self.start_date, other.start_date)
        new_end   == Min2(self.end_date, other.end_date)
    IN IF new_start <= new_end THEN DateRange(new_start, new_end) ELSE None

\* DateRange.intersection: None unless new_start < new_end strictly
intersection(self, other) ==
    LET new_start == Max2(self.start_date, other.start_date)
        new_end   == Min2(self.end_date, other.end_date)
    IN IF new_start < new_end THEN DateRange(new_start, new_end) ELSE None

\* DateRange.date_range: every calendar date of the interval
date_range(self) == [i \in 1..(self.end_date - self.start_date + 1) |-> self.start_date + i - 1]

\* DateRange.total_days
total_days(self) == self.end_date - self.start_date

\* Variant of the loop of split_into_years that does not clamp start_date
RECURSIVE split_loop_noclamp(_, _, _)
split_loop_noclamp(self, end_date, n) ==
    IF n = 0 THEN <<>>
    ELSE <<DateRange(end_date - DAYS_365, end_date)>>
         \o split_loop_noclamp(self, end_date - DAYS_365, n - 1)

\* the loop of split_into_years: n iterations left, end_date the running end
RECURSIVE split_loop(_, _, _)
split_loop(self, end_date, n) ==
    IF n = 0 THEN <<>>
    ELSE LET s0 == end_date - DAYS_365
             start_date == IF s0 < self.start_date THEN self.start_date ELSE s0
         IN <<DateRange(start_date, end_date)>> \o split_loop(self, start_date, n - 1)

\* Variant of split_into_years that never splits
split_into_years_nosplit(self) == <<self>>

\* DateRange.split_into_years; np.ceil(duration / 365) as integer arithmetic
split_into_years(self) ==
    LET duration == self.end_date - self.start_date
    IN IF duration <= DAYS_365 THEN <<self>>
       ELSE split_loop(self, self.end_date, (duration + DAYS_365 - 1) \div DAYS_365)

\* the loop of get_date_range_list over location_of_gaps (1-based indices)
RECURSIVE date_range_list_loop(_, _, _)
date_range_list_loop(dates, start_i, gaps) ==
    IF gaps = <<>> THEN <<>>
    ELSE LET end_i == Head(gaps)
         IN <<DateRange(dates[start_i], dates[end_i])>>
            \o date_range_list_loop(dates, end_i + 1, Tail(gaps))

\* Variant of get_date_range_list that leaves out np.sort
get_date_range_list_nosort(dates_in) ==
    IF dates_in = <<>> THEN <<>>
    ELSE LET dates == dates_in
             location_of_gaps ==
                 SortedSeqOfSet({i \in 1..(Len(dates) - 1) : dates[i + 1] - dates[i] > 1})
                 \o <<Len(dates)>>
         IN date_range_list_loop(dates, 1, location_of_gaps)

get_date_range_list(dates_in) ==
    IF dates_in = <<>> THEN <<>>
    ELSE LET dates == np_sort(dates_in)
             location_of_gaps ==
                 SortedSeqOfSet({i \in 1..(Len(dates) - 1) : dates[i + 1] - dates[i] > 1})
                 \o <<Len(dates)>>
         IN date_range_list_loop(dates, 1, location_of_gaps)

RECURSIVE split_all(_)
split_all(date_ranges) ==
    IF date_ranges = <<>> THEN <<>>
    ELSE split_into_years(Head(date_ranges)) \o split_all(Tail(date_ranges))

\* the second loop of merge_date_ranges_to_years
RECURSIVE merge_loop(_, _)
merge_loop(date_ranges_split, years_to_download) ==
    IF date_ranges_split = <<>> THEN years_to_download
    ELSE LET dr == Head(date_ranges_split)
             rest == Tail(date_ranges_split)
             last == years_to_download[Len(years_to_download)]
             isect == intersection(dr, last)
         IN IF years_to_download # <<>> /\ isect = dr
            THEN merge_loop(rest, years_to_download)
            ELSE LET date_to == IF years_to_download = <<>> THEN dr.end_date
                                ELSE IF isect = None THEN dr.end_date
                                ELSE isect.start_date
                 IN merge_loop(rest,
                        Append(years_to_download, DateRange(date_to - DAYS_365, date_to)))

merge_date_ranges_to_years(date_ranges) ==
    IF date_ranges = <<>> THEN <<>>
    ELSE merge_loop(split_all(Reverse(date_ranges)), <<>>)

-----------------------------------------------------------------------------
(* The persisted store (one HDF5 file).                                     *)
(*   store.timeseries[s]  the rows under /timeseries/<s>, in append order;  *)
(*                        <<>> when the key is absent                       *)
(*   store.missing_dates  the rows of the missing_dates table, in append    *)
(*                        order; <<>> when the table is absent              *)
(*   store.statistics[s]  the cached getstatistic row of s, or None         *)
(* A timeseries row is [ts, query_date]: its timestamp (a day number; one   *)
(* reading per day) and the date parameter of the request that produced it. *)

system_ids == <<1, 2>>
Systems == {system_ids[k] : k \in 1..Len(system_ids)}

EmptyStore ==
    [timeseries |-> [s \in Systems |-> <<>>],
     missing_dates |-> <<>>,
     statistics |-> [s \in Systems |-> None]]

\* os.path.exists(store_filename): the file is created by the first write
store_exists(st) ==
    \/ st.missing_dates # <<>>
    \/ \E s \in Systems : st.timeseries[s] # <<>> \/ st.statistics[s] # None

\* the outcome of a call: a value returned or an exception raised
Returned(v) == [value |-> v]
Raised(name) == [exception |-> name]
IsRaised(r) == "exception" \in DOMAIN r

-----------------------------------------------------------------------------
(* pvoutput/utils.py *)

\* get_dates_already_downloaded: index dates and query_dates of stored rows;
\* empty when the file or the key is absent
get_dates_already_downloaded(st, system_id) ==
    IF ~store_exists(st) THEN {}
    ELSE LET rows == st.timeseries[system_id]
         IN {rows[k].ts : k \in 1..Len(rows)} \cup {rows[k].query_date : k \in 1..Len(rows)}

\* get_missing_dates_for_id: [] when the file is absent; store.select(key=
\* "missing_dates") raises KeyError when the file holds no such table
get_missing_dates_for_id(st, system_id) ==
    IF ~store_exists(st) THEN Returned({})
    ELSE IF st.missing_dates = <<>> THEN Raised("KeyError")
    ELSE LET recs == {k \in 1..Len(st.missing_dates) :
                          st.missing_dates[k].pv_system_id = system_id}
         IN Returned(UNION {st.missing_dates[k].missing_start_date ..
                                st.missing_dates[k].missing_end_date : k \in recs})

\* a get_date_ranges_to_download that leaves out get_dates_already_downloaded
get_date_ranges_to_download_again(st, system_id, start_date, end_date) ==
    LET missing_dates_for_id == get_missing_dates_for_id(st, system_id)
    IN IF IsRaised(missing_dates_for_id) THEN missing_dates_for_id
       ELSE Returned(get_date_range_list(SortedSeqOfSet(
                (start_date..end_date) \ missing_dates_for_id.value)))

\* get_date_ranges_to_download
get_date_ranges_to_download(st, system_id, start_date, end_date) ==
    LET dates_already_downloaded == get_dates_already_downloaded(st, system_id)
        missing_dates_for_id == get_missing_dates_for_id(st, system_id)
    IN IF IsRaised(missing_dates_for_id) THEN missing_dates_for_id
       ELSE Returned(get_date_range_list(SortedSeqOfSet(
                ((start_date..end_date) \ dates_already_downloaded)
                    \ missing_dates_for_id.value)))

\* a sort_and_de_dupe_pv_system that writes the table back as it read it
de_duped_keep_all(rows, keep) == rows

\* timeseries.sort_index() followed by ~index.duplicated(): one row per
\* timestamp, in ascending order.  keep[t] is the row that sort_index put
\* first among the rows with timestamp t.
de_duped(rows, keep) ==
    LET tss == SortedSeqOfSet({rows[k].ts : k \in 1..Len(rows)})
    IN [k \in 1..Len(tss) |-> keep[tss[k]]]

\* sort_index uses an unstable sort: any row of a timestamp may come first
SortChoices(rows) ==
    LET tss == {rows[k].ts : k \in 1..Len(rows)}
        RowSet == {rows[k] : k \in 1..Len(rows)}
    IN {keep \in [tss -> RowSet] : \A t \in tss : keep[t].ts = t}

-----------------------------------------------------------------------------
(* The remote service.                                                      *)
(* A response is [status_code, headers, content]; headers are the three     *)
(* rate-limit headers (reset_time in seconds, as is utc_now); content is    *)
(* [text, rows]: text "data" with the timestamps of the returned rows,      *)
(* text "Accepted 202" (getbatchstatus not ready), or text "statistic" with *)
(* rows the days that have an output.                                       *)

Content(text, rows) == [text |-> text, rows |-> rows]

HTTP_400 == 400
HTTP_403 == 403
HTTP_500 == 500

\* X-Rate-Limit-Remaining, X-Rate-Limit-Limit, X-Rate-Limit-Reset
Headers(remaining, total, reset_time) ==
    [rate_limit_remaining |-> remaining, rate_limit_total |-> total,
     rate_limit_reset_time |-> reset_time]

HttpResponse(status_code, headers, content) ==
    [status_code |-> status_code, headers |-> headers, content |-> content]

\* a response whose quota resets at second 0
Response(status_code, remaining, content) ==
    HttpResponse(status_code, Headers(remaining, 1, 0), content)

\* what the service answers when nothing is wrong: 400 'No status found'
\* when it has no row to return
NominalResponse(text, rows) ==
    IF rows = {} /\ text = "data"
    THEN Response(HTTP_400, 1, Content("", {}))
    ELSE Response(200, 1, Content(text, rows))

QuotaExhausted == Response(HTTP_403, 0, Content("Forbidden 403", {}))
ServerError == Response(HTTP_500, 1, Content("", {}))
Accepted202 == Response(200, 1, Content("Accepted 202", {}))

\* PVOutput._process_api_response: what it returns or raises
_process_api_response(response) ==
    IF response.status_code = HTTP_400 THEN Raised("NoStatusFound")
    ELSE IF response.status_code # HTTP_403 /\ response.status_code >= HTTP_400
         THEN Raised("HTTPError")
    ELSE IF response.status_code = HTTP_403 /\ response.headers.rate_limit_remaining <= 0
         THEN Raised("RateLimitExceeded")
    ELSE Returned(response.content)

\* PVOutput.__init__: the rate-limit fields of a client that has seen no
\* response
NoRateLimit ==
    [rate_limit_remaining |-> None, rate_limit_total |-> None,
     rate_limit_reset_time |-> None]

\* PVOutput._set_rate_limit_params: the rate-limit fields of the client
_set_rate_limit_params(headers) ==
    [rate_limit_remaining |-> headers.rate_limit_remaining,
     rate_limit_total |-> headers.rate_limit_total,
     rate_limit_reset_time |-> headers.rate_limit_reset_time]

\* Variant of rate_limit_after in which no response updates the fields
rate_limit_kept(self, response) == self

\* the rate-limit fields of the client once _process_api_response has
\* returned or raised: the 400 and the bad-status exits come before
\* _set_rate_limit_params
rate_limit_after(self, response) ==
    IF response.status_code = HTTP_400 THEN self
    ELSE IF response.status_code # HTTP_403 /\ response.status_code >= HTTP_400 THEN self
    ELSE _set_rate_limit_params(response.headers)

\* timedelta(minutes=3), in seconds
SAFETY_SECS == 180

\* PVOutput.wait_for_rate_limit_reset: secs_to_wait returned and the seconds
\* slept; time.sleep raises ValueError on a negative length
wait_for_rate_limit_reset(self, utc_now, do_sleeping) ==
    LET secs_to_wait == (self.rate_limit_reset_time - utc_now) + SAFETY_SECS
    IN IF do_sleeping /\ secs_to_wait < 0
       THEN [result |-> Raised("ValueError"), slept |-> 0]
       ELSE [result |-> Returned(secs_to_wait),
             slept |-> IF do_sleeping THEN secs_to_wait ELSE 0]

\* PVOutput._api_query of a client with rate-limit fields self at time
\* utc_now, on the responses the service gives to its requests, in order:
\* [result, requests, waits, rate_limit], the outcome, the number of requests
\* sent and of waits completed, and the rate-limit fields afterwards.  The
\* RateLimitExceeded it raises holds the response and, in its message,
\* rate_limit_reset_time.  The request re-issued after
\* wait_for_rate_limit_reset is made with wait_if_rate_limit_exceeded=False.
RECURSIVE _api_query_self(_, _, _, _)
_api_query_self(self, utc_now, wait_if_rate_limit_exceeded, responses) ==
    LET response == responses[1]
        processed == _process_api_response(response)
        self1 == rate_limit_after(self, response)
    IN IF IsRaised(processed) /\ processed.exception = "RateLimitExceeded"
       THEN IF wait_if_rate_limit_exceeded
            THEN LET waited == wait_for_rate_limit_reset(self1, utc_now, TRUE)
                 IN IF IsRaised(waited.result)
                    THEN [result |-> waited.result, requests |-> 1, waits |-> 0,
                          rate_limit |-> self1]
                    ELSE LET again == _api_query_self(self1, utc_now + waited.slept,
                                                      FALSE, Tail(responses))
                         IN [again EXCEPT !.requests = @ + 1, !.waits = @ + 1]
            ELSE [result |-> [exception |-> "RateLimitExceeded", response |-> response,
                              reset_time |-> self1.rate_limit_reset_time],
                  requests |-> 1, waits |-> 0, rate_limit |-> self1]
       ELSE [result |-> processed, requests |-> 1, waits |-> 0, rate_limit |-> self1]

\* the request get_response_func sends: to the data service
\* (_get_data_service_response) or to the standard API (_get_api_response)
Request(service, api_params, use_data_service) ==
    [url |-> IF use_data_service THEN "data_service_url" ELSE "BASE_URL",
     service |-> service, api_params |-> api_params]

RECURSIVE _api_query_sent(_, _, _, _, _, _, _)
\* the requests one call of _api_query sends, in order; the call made after
\* the wait is self._api_query(service, api_params,
\* wait_if_rate_limit_exceeded=False), with use_data_service left at its
\* default False
_api_query_sent(self, utc_now, service, api_params, wait, use_data_service, responses) ==
    LET request == Request(service, api_params, use_data_service)
        processed == _process_api_response(responses[1])
        self1 == rate_limit_after(self, responses[1])
    IN IF IsRaised(processed) /\ processed.exception = "RateLimitExceeded" /\ wait
       THEN LET waited == wait_for_rate_limit_reset(self1, utc_now, TRUE)
            IN IF IsRaised(waited.result) THEN <<request>>
               ELSE <<request>> \o _api_query_sent(self1, utc_now + waited.slept,
                                                   service, api_params, FALSE, FALSE,
                                                   Tail(responses))
       ELSE <<request>>

\* the part of the outcome of _api_query_self its callers see
query_outcome(q) == [result |-> q.result, requests |-> q.requests, waits |-> q.waits]

\* _api_query as the callers of this module see it: the outcome with the
\* number of requests sent and of waits made
_api_query(wait_if_rate_limit_exceeded, responses) ==
    query_outcome(_api_query_self(NoRateLimit, 0, wait_if_rate_limit_exceeded,
                                  responses))

\* _check_date: the date must not be in the future
_check_date(date, now) == IF date > now THEN Raised("ValueError") ELSE Returned(date)

\* what get_status makes of the outcome q of its _api_query call:
\* NoStatusFound gives an empty DataFrame
status_of_query(q) ==
    IF IsRaised(q.result)
    THEN IF q.result.exception = "NoStatusFound"
         THEN [q EXCEPT !.result = Returned({})]
         ELSE q
    ELSE [q EXCEPT !.result = Returned(q.result.value.rows)]

\* PVOutput.get_status: the timestamps of the rows of one day
get_status(date, now, wait_if_rate_limit_exceeded, responses) ==
    IF IsRaised(_check_date(date, now))
    THEN [result |-> Raised("ValueError"), requests |-> 0, waits |-> 0]
    ELSE status_of_query(_api_query(wait_if_rate_limit_exceeded, responses))

\* get_batch_status(max_retries=1000)
DEFAULT_MAX_RETRIES == 1000

\* "Accepted 202" in pv_system_status_text
is_accepted(result) == ~IsRaised(result) /\ result.value.text = "Accepted 202"

\* the answer to the poll of iteration retry (0-based) is 'Accepted 202'
poll_accepted(responses, retry) ==
    is_accepted(_api_query(FALSE, <<responses[retry + 1]>>).result)

\* Variant of poll_sleeps that sleeps after every 'Accepted 202'
poll_sleeps_always(responses, retry, max_retries) == poll_accepted(responses, retry)

\* iteration retry of the polling loop calls time.sleep(60)
poll_sleeps(responses, retry, max_retries) ==
    poll_accepted(responses, retry) /\ retry < max_retries - 1

\* the iterations of the polling loop whose answer is not 'Accepted 202'
poll_breaks(max_retries, responses) ==
    {retry \in 0..(Min2(max_retries, Len(responses)) - 1) :
         ~poll_accepted(responses, retry)}

\* the number of iterations the polling loop runs: up to the first one that
\* leaves it, max_retries without one
poll_iterations(max_retries, breaks) ==
    IF breaks = {} THEN max_retries
    ELSE 1 + CHOOSE retry \in breaks : \A r \in breaks : retry <= r

\* what get_batch_status makes of the answer that ends the polling:
\* NoStatusFound gives an empty DataFrame, any other exception propagates
poll_result(result) ==
    IF IsRaised(result)
    THEN IF result.exception = "NoStatusFound" THEN Returned({}) ELSE result
    ELSE Returned(result.value.rows)

\* the outcome of the polling loop that runs `iterations` times; without an
\* iteration that leaves it the else clause of the loop returns None
poll_outcome(max_retries, responses, breaks, iterations) ==
    [result |-> IF breaks = {} THEN None
                ELSE poll_result(_api_query(FALSE, <<responses[iterations]>>).result),
     requests |-> iterations,
     waits |-> 0,
     sleeps |-> Cardinality({retry \in 0..(iterations - 1) :
                                 poll_sleeps(responses, retry, max_retries)})]

poll_loop(max_retries, responses, breaks) ==
    poll_outcome(max_retries, responses, breaks, poll_iterations(max_retries, breaks))

\* the polling loop of get_batch_status (for retry in range(max_retries)) on
\* the answers of the service to the polls, in order (at least max_retries
\* answers, or fewer with one that ends the polling).  The loop is left at
\* the first iteration whose answer is not 'Accepted 202', by break or by an
\* exception; without one it runs max_retries times and its else clause
\* returns None.  requests counts the requests sent, sleeps the
\* time.sleep(60) calls.
batch_poll(max_retries, responses) ==
    poll_loop(max_retries, responses, poll_breaks(max_retries, responses))

\* PVOutput.get_batch_status: the timestamps of the rows of the year ending at
\* date_to (Returned), None, or an exception (Raised)
get_batch_status(date_to, now, max_retries, responses) ==
    IF IsRaised(_check_date(date_to, now))
    THEN [result |-> Raised("ValueError"), requests |-> 0, waits |-> 0, sleeps |-> 0]
    ELSE batch_poll(max_retries, responses)

\* PVOutput.get_statistic without date_from and date_to: the statistic row of
\* the system; query_date_to is pd.Timestamp.now()
get_statistic(now, wait_if_rate_limit_exceeded, responses) ==
    LET q == _api_query(wait_if_rate_limit_exceeded, responses)
        days == IF IsRaised(q.result) THEN {} ELSE q.result.value.rows
        stat == IF days = {}
                THEN [actual_date_from |-> NaT, actual_date_to |-> NaT,
                      num_outputs |-> 0, query_date_to |-> now]
                ELSE [actual_date_from |-> CHOOSE d \in days : \A e \in days : d <= e,
                      actual_date_to |-> CHOOSE d \in days : \A e \in days : d >= e,
                      num_outputs |-> Cardinality(days), query_date_to |-> now]
    IN IF IsRaised(q.result) /\ q.result.exception # "NoStatusFound"
       THEN q
       ELSE [q EXCEPT !.result = Returned(stat)]

-----------------------------------------------------------------------------
(* pvoutput/pvoutput.py: the download orchestrator *)

\* a _get_statistic_with_cache that always calls the API
statistic_cache_never(st, pv_system_id, date_to) == FALSE

\* _get_statistic_with_cache: TRUE when the cached row answers the query
\* (date_from is never passed; a row is refreshed when date_to is later than
\* its query_date_to)
statistic_cache_hit(st, pv_system_id, date_to) ==
    /\ st.statistics[pv_system_id] # None
    /\ ~(date_to > st.statistics[pv_system_id].query_date_to)

\* _filter_date_range once the statistic row is known (min_data_availability
\* = 0.5)
_filter_date_range(date_ranges_in, stats) ==
    IF date_ranges_in = <<>> THEN date_ranges_in
    ELSE IF stats.actual_date_from = NaT \/ stats.actual_date_to = NaT THEN <<>>
    ELSE LET timeseries_date_range == DateRange(stats.actual_date_from, stats.actual_date_to)
         IN IF 2 * stats.num_outputs < total_days(timeseries_date_range) + 1 THEN <<>>
            ELSE LET isects == [k \in 1..Len(date_ranges_in) |->
                                   intersection(date_ranges_in[k], timeseries_date_range)]
                 IN SelectSeq(isects, LAMBDA r : r # None)

\* Variant of check_pv_system_status that looks at index[0] only
check_pv_system_status_first_only(rows, requested_date) ==
    IF rows # {}
       /\ LET index == SortedSeqOfSet(rows)
          IN ~(requested_date <= index[1] /\ index[1] <= requested_date + 1)
    THEN Raised("ValueError")
    ELSE Returned(rows)

\* check_pv_system_status: index[0] and index[-1] of the sorted index within
\* the requested date and the day after it
check_pv_system_status(rows, requested_date) ==
    IF rows # {}
       /\ LET index == SortedSeqOfSet(rows)
          IN \E d \in {index[1], index[Len(index)]} :
                 ~(requested_date <= d /\ d <= requested_date + 1)
    THEN Raised("ValueError")
    ELSE Returned(rows)

\* Variant of _convert_consecutive_dates_to_date_ranges that ignores the gaps
_convert_consecutive_dates_one_span(missing_dates) ==
    IF missing_dates = {} THEN <<>>
    ELSE <<[missing_start_date |-> CHOOSE d \in missing_dates :
                                       \A e \in missing_dates : d <= e,
            missing_end_date |-> CHOOSE d \in missing_dates :
                                     \A e \in missing_dates : d >= e]>>

\* _convert_consecutive_dates_to_date_ranges: the maximal runs of consecutive
\* dates, as rows of the missing_dates table without their index.  In the
\* sorted array of unique dates a run ends at each gap index (a date whose
\* next date is more than one day later) and at the last date, and a run
\* starts at the first date and at the date after each gap: the end dates
\* are the dates whose next day is absent, the start dates those whose
\* previous day is absent, paired in ascending order.
_convert_consecutive_dates_to_date_ranges(missing_dates) ==
    LET starts == SortedSeqOfSet({d \in missing_dates : d - 1 \notin missing_dates})
        ends == SortedSeqOfSet({d \in missing_dates : d + 1 \notin missing_dates})
    IN [k \in 1..Len(starts) |->
           [missing_start_date |-> starts[k], missing_end_date |-> ends[k]]]

\* Variant of _append_missing_date_range that writes nothing
_append_missing_date_range_skipped(st, pv_system_id, missing_start_date, missing_end_date) ==
    st

\* _append_missing_date_range: the store after the append
_append_missing_date_range(st, pv_system_id, missing_start_date, missing_end_date) ==
    [st EXCEPT !.missing_dates =
        Append(@, [pv_system_id |-> pv_system_id,
                   missing_start_date |-> missing_start_date,
                   missing_end_date |-> missing_end_date])]

\* timeseries["instantaneous_power_gen_W"].dropna().resample("D").mean()
\* .dropna().index.date: the dates with a power reading that is not null
dates_of_data(timeseries) == {row.ts : row \in {r \in timeseries : r.power # NaT}}

\* Variant of _record_gaps that writes the missing_dates table anew
_record_gaps_overwrite(st, pv_system_id, date_to, rows) ==
    [st EXCEPT !.missing_dates =
        LET missing_date_ranges ==
                _convert_consecutive_dates_to_date_ranges(
                    ((date_to - DAYS_365)..date_to) \ rows)
        IN [k \in 1..Len(missing_date_ranges) |->
               [pv_system_id |-> pv_system_id,
                missing_start_date |-> missing_date_ranges[k].missing_start_date,
                missing_end_date |-> missing_date_ranges[k].missing_end_date]]]

\* _record_gaps: the store after the missing ranges of the window ending at
\* date_to are appended (nothing is written when there is none)
_record_gaps(st, pv_system_id, date_to, rows) ==
    LET dates_requested == (date_to - DAYS_365)..date_to
        missing_date_ranges ==
            _convert_consecutive_dates_to_date_ranges(dates_requested \ rows)
    IN [st EXCEPT !.missing_dates = @ \o
           [k \in 1..Len(missing_date_ranges) |->
               [pv_system_id |-> pv_system_id,
                missing_start_date |-> missing_date_ranges[k].missing_start_date,
                missing_end_date |-> missing_date_ranges[k].missing_end_date]]]

\* timeseries["query_date"] = pd.Timestamp(date_to_load): the rows, in
\* timestamp order, tagged with query_date
with_query_date(rows, date_to_load) ==
    LET tss == SortedSeqOfSet(rows)
    IN [k \in 1..Len(tss) |-> [ts |-> tss[k], query_date |-> date_to_load]]

\* store.append(key, timeseries) of _download_multiple_worker: the rows, in
\* timestamp order, tagged with query_date
append_timeseries(st, pv_system_id, rows, date_to_load) ==
    [st EXCEPT !.timeseries[pv_system_id] = @ \o with_query_date(rows, date_to_load)]

RECURSIVE all_dates(_)
\* the dates _download_multiple_using_get_status requests, range after range
all_dates(rs) == IF rs = <<>> THEN <<>> ELSE date_range(Head(rs)) \o all_dates(Tail(rs))

-----------------------------------------------------------------------------
(* The responses of the service to one call of the client *)

Modes == {"batch", "status"}

FaultResponses(service) ==
    IF service = "getbatchstatus" THEN {QuotaExhausted, ServerError, Accepted202}
    ELSE {QuotaExhausted, ServerError}

NumFaults(rs, nominal) == Cardinality({k \in 1..Len(rs) : rs[k] # nominal})

\* the sequences of responses a call may meet: at most `budget` faulty
\* responses, the nominal answer (if any) last
RECURSIVE ResponseSeqs(_, _, _)
ResponseSeqs(service, nominal, budget) ==
    {<<nominal>>} \cup
    IF budget = 0 THEN {}
    ELSE {<<f>> \o t : f \in FaultResponses(service),
                       t \in {<<>>} \cup ResponseSeqs(service, nominal, budget - 1)}

\* the batch endpoint answers "Accepted 202" to every poll of one call
PollBudgetExhausted == [k \in 1..DEFAULT_MAX_RETRIES |-> Accepted202]

NeverReady(budget) == IF budget = 0 THEN {} ELSE {PollBudgetExhausted}

\* a call answered by PollBudgetExhausted counts as one fault
FaultCount(rs, nominal) ==
    IF rs = PollBudgetExhausted THEN 1 ELSE NumFaults(rs, nominal)

\* answers of getstatus whose timestamps are not all on the requested date:
\* the day before, a span running two days past it, and a span reaching into
\* the next day (a timezone shift)
TimestampFaults(date, budget) ==
    IF budget = 0 THEN {}
    ELSE {<<Response(200, 1, Content("data", rows))>> :
              rows \in {{date - 1}, {date, date + 2}, {date, date + 1}}}

\* _api_query reads responses[2] only after a wait
Pad(rs) == rs \o <<ServerError>>

-----------------------------------------------------------------------------
(* Actions of the orchestrator *)

cur_system == system_ids[loop_i]

\* variables no step of an invocation changes
settings == <<remote, req_start_date, req_end_date, run, mode, prev, hvars>>
fixed == <<settings, killed_before_de_dupe>>

ResetLocals ==
    /\ pc' = "idle"
    /\ loop_i' = 0
    /\ date_ranges_to_download' = <<>>
    /\ worker_dates' = <<>>
    /\ total_rows' = 0
    /\ df' = <<>>

\* an exception leaves download_multiple_systems_to_disk
Raise(name) ==
    /\ outcome' = name
    /\ ResetLocals

\* download_multiple_systems_to_disk is called, for at most max_runs
\* invocations in all
InvokeWithin(max_runs) ==
    /\ outcome # "running"
    /\ run < max_runs
    /\ \E m \in Modes : mode' = m
    /\ run' = run + 1
    /\ prev' = [mode |-> mode, outcome |-> outcome]
    /\ outcome' = "running"
    /\ pc' = "loop"
    /\ nreq' = 0
    /\ visited' = {}
    /\ UNCHANGED <<remote, req_start_date, req_end_date, store, loop_i,
                   date_ranges_to_download, worker_dates, total_rows, df, faults,
                   killed_before_de_dupe, hvars>>

Invoke == InvokeWithin(MaxRuns)

\* after _filter_date_range: skip the system or start one of the two workers
Dispatch(filtered) ==
    IF filtered = <<>>
    THEN /\ pc' = "loop"
         /\ date_ranges_to_download' = <<>>
         /\ worker_dates' = <<>>
    ELSE /\ date_ranges_to_download' = filtered
         /\ IF mode = "batch"
            THEN /\ worker_dates' = SeqMap_end_date(merge_date_ranges_to_years(filtered))
                 /\ pc' = "get_batch_status"
            ELSE /\ worker_dates' = all_dates(filtered)
                 /\ pc' = "get_status"

\* one pass of the for loop of download_multiple_systems_to_disk up to the
\* statistics query, or the end of the loop
LoopHead ==
    /\ outcome = "running" /\ pc = "loop"
    /\ UNCHANGED <<fixed, store, nreq, faults>>
    /\ IF loop_i = Len(system_ids)
       THEN /\ outcome' = "completed"
            /\ ResetLocals
            /\ UNCHANGED visited
       ELSE LET pv_system_id == system_ids[loop_i + 1]
                r == get_date_ranges_to_download(store, pv_system_id,
                                                 req_start_date, req_end_date)
            IN /\ visited' = visited \cup {pv_system_id}
               /\ IF IsRaised(r)
                  THEN Raise(r.exception)
                  ELSE /\ loop_i' = loop_i + 1
                       /\ total_rows' = 0
                       /\ df' = <<>>
                       /\ UNCHANGED outcome
                       /\ IF r.value = <<>>
                          THEN Dispatch(<<>>)
                          ELSE IF statistic_cache_hit(store, pv_system_id,
                                                      r.value[Len(r.value)].end_date)
                          THEN Dispatch(_filter_date_range(r.value,
                                                           store.statistics[pv_system_id]))
                          ELSE /\ pc' = "get_statistic"
                               /\ date_ranges_to_download' = r.value
                               /\ worker_dates' = <<>>

\* _get_fresh_statistic, then the rest of _filter_date_range
FreshStatistic ==
    /\ outcome = "running" /\ pc = "get_statistic"
    /\ UNCHANGED <<fixed, visited>>
    /\ LET nominal == NominalResponse("statistic", remote[cur_system])
       IN \E rs \in ResponseSeqs("getstatistic", nominal, MaxFaults - faults) :
            LET q == get_statistic(Today, TRUE, Pad(rs))
            IN /\ q.requests = Len(rs)
               /\ nreq' = nreq + q.requests
               /\ faults' = faults + NumFaults(rs, nominal)
               /\ IF IsRaised(q.result)
                  THEN /\ Raise(q.result.exception)
                       /\ UNCHANGED store
                  ELSE /\ store' = [store EXCEPT !.statistics[cur_system] = q.result.value]
                       /\ UNCHANGED <<outcome, loop_i, total_rows, df>>
                       /\ Dispatch(_filter_date_range(date_ranges_to_download,
                                                      q.result.value))

\* where the per-day worker goes once a date is dealt with
AfterStatusDay ==
    /\ worker_dates' = Tail(worker_dates)
    /\ pc' = IF Tail(worker_dates) # <<>> THEN "get_status" ELSE "loop"
    /\ UNCHANGED <<outcome, loop_i, date_ranges_to_download, total_rows, df>>

\* one iteration of _download_multiple_worker with use_get_status=True
StatusDay ==
    /\ outcome = "running" /\ pc = "get_status"
    /\ UNCHANGED <<fixed, visited>>
    /\ LET date_to_load == Head(worker_dates)
           nominal == NominalResponse("data", remote[cur_system] \cap {date_to_load})
       IN \E rs \in ResponseSeqs("getstatus", nominal, MaxFaults - faults)
                      \cup TimestampFaults(date_to_load, MaxFaults - faults) :
            LET q == get_status(date_to_load, Today, TRUE, Pad(rs))
            IN /\ q.requests = Len(rs) \/ (q.requests = 0 /\ rs = <<nominal>>)
               /\ nreq' = nreq + q.requests
               /\ faults' = faults + NumFaults(rs, nominal)
               /\ IF IsRaised(q.result)
                  THEN /\ Raise(q.result.exception)
                       /\ UNCHANGED store
                  ELSE IF q.result.value = {}
                  THEN /\ store' = _append_missing_date_range(store, cur_system,
                                                              date_to_load, date_to_load)
                       /\ AfterStatusDay
                  ELSE IF IsRaised(check_pv_system_status(q.result.value, date_to_load))
                  THEN /\ Raise("ValueError")
                       /\ UNCHANGED store
                  ELSE /\ store' = append_timeseries(store, cur_system, q.result.value,
                                                     date_to_load)
                       /\ AfterStatusDay

\* where the batch worker goes once a date is dealt with; the de-duplication
\* pass follows the last date when total_rows is not 0
AfterBatchDate ==
    /\ worker_dates' = Tail(worker_dates)
    /\ pc' = IF Tail(worker_dates) # <<>> THEN "get_batch_status"
             ELSE IF total_rows > 0 THEN "sort_and_de_dupe"
             ELSE "loop"
    /\ df' = <<>>
    /\ UNCHANGED <<outcome, loop_i, date_ranges_to_download, total_rows>>

\* one iteration of _download_multiple_worker with use_get_status=False, up
\* to and including _record_gaps
BatchRequest ==
    /\ outcome = "running" /\ pc = "get_batch_status"
    /\ UNCHANGED <<fixed, visited>>
    /\ LET date_to_load == Head(worker_dates)
           nominal == NominalResponse("data",
                          remote[cur_system] \cap ((date_to_load - DAYS_365)..date_to_load))
       IN \E rs \in ResponseSeqs("getbatchstatus", nominal, MaxFaults - faults)
                      \cup NeverReady(MaxFaults - faults) :
            LET q == get_batch_status(date_to_load, Today, DEFAULT_MAX_RETRIES, Pad(rs))
            IN /\ q.requests = Len(rs) \/ (q.requests = 0 /\ rs = <<nominal>>)
               /\ nreq' = nreq + q.requests
               /\ faults' = faults + FaultCount(rs, nominal)
               /\ IF IsRaised(q.result)
                  THEN /\ Raise(q.result.exception)
                       /\ UNCHANGED store
                  ELSE IF q.result = None
                  THEN /\ Raise("AttributeError")
                       /\ UNCHANGED store
                  ELSE IF q.result.value = {}
                  THEN /\ store' = _append_missing_date_range(store, cur_system,
                                       date_to_load - DAYS_365, date_to_load)
                       /\ AfterBatchDate
                  ELSE /\ total_rows' = total_rows + Cardinality(q.result.value)
                       /\ store' = _record_gaps(store, cur_system, date_to_load,
                                                q.result.value)
                       /\ df' = with_query_date(q.result.value, date_to_load)
                       /\ pc' = "append"
                       /\ UNCHANGED <<outcome, loop_i, date_ranges_to_download,
                                      worker_dates>>

\* the store.append that ends an iteration of the batch worker
BatchAppend ==
    /\ outcome = "running" /\ pc = "append"
    /\ store' = append_timeseries(store, cur_system,
                                   {df[k].ts : k \in 1..Len(df)}, Head(worker_dates))
    /\ AfterBatchDate
    /\ UNCHANGED <<fixed, nreq, visited, faults>>

\* sort_and_de_dupe_pv_system up to and including store.remove(key)
SortAndDeDupeRemove ==
    /\ outcome = "running" /\ pc = "sort_and_de_dupe"
    /\ \E keep \in SortChoices(store.timeseries[cur_system]) :
          df' = de_duped(store.timeseries[cur_system], keep)
    /\ store' = [store EXCEPT !.timeseries[cur_system] = <<>>]
    /\ pc' = "de_dupe_append"
    /\ UNCHANGED <<fixed, outcome, loop_i, date_ranges_to_download, worker_dates,
                   total_rows, nreq, visited, faults>>

\* the store.append that ends sort_and_de_dupe_pv_system
SortAndDeDupeAppend ==
    /\ outcome = "running" /\ pc = "de_dupe_append"
    /\ store' = [store EXCEPT !.timeseries[cur_system] = @ \o df]
    /\ df' = <<>>
    /\ pc' = "loop"
    /\ UNCHANGED <<fixed, outcome, loop_i, date_ranges_to_download, worker_dates,
                   total_rows, nreq, visited, faults>>

\* the process is killed
Interrupt ==
    /\ outcome = "running"
    /\ outcome' = "interrupted"
    /\ ResetLocals
    /\ nreq' = 0
    /\ visited' = {}
    /\ killed_before_de_dupe' = IF pc = "sort_and_de_dupe" THEN {cur_system} ELSE {}
    /\ UNCHANGED <<settings, store, faults>>

Worlds == [Systems -> SUBSET (1..Today)]

Init ==
    /\ remote \in Worlds
    /\ req_start_date = 1
    /\ req_end_date \in {Today, Today + 1}
    /\ store = EmptyStore
    /\ run = 0
    /\ mode = "none"
    /\ outcome = "none"
    /\ prev = [mode |-> "none", outcome |-> "none"]
    /\ pc = "idle"
    /\ loop_i = 0
    /\ date_ranges_to_download = <<>>
    /\ worker_dates = <<>>
    /\ total_rows = 0
    /\ df = <<>>
    /\ nreq = 0
    /\ visited = {}
    /\ faults = 0
    /\ killed_before_de_dupe = {}
    /\ fin = [op |-> "none", a |-> None, b |-> None, dates |-> <<>>, ranges |-> <<>>]
    /\ fop = "none"
    /\ fout = None

Next ==
    \/ Invoke
    \/ LoopHead
    \/ FreshStatistic
    \/ StatusDay
    \/ BatchRequest
    \/ BatchAppend
    \/ SortAndDeDupeRemove
    \/ SortAndDeDupeAppend
    \/ Interrupt

Spec == Init /\ [][Next]_vars

-----------------------------------------------------------------------------
(* Re-invocations over one more run, on the services whose first system has *)
(* data on the first and the last day of the request                        *)

ResumeWorlds == {w \in Worlds : w[system_ids[1]] = {1, Today}}

InitResume ==
    /\ Init
    /\ remote \in ResumeWorlds
    /\ req_end_date = Today

InvokeResumed == InvokeWithin(MaxRuns + 1)

NextResume ==
    \/ InvokeResumed
    \/ LoopHead
    \/ FreshStatistic
    \/ StatusDay
    \/ BatchRequest
    \/ BatchAppend
    \/ SortAndDeDupeRemove
    \/ SortAndDeDupeAppend
    \/ Interrupt

SpecResume == InitResume /\ [][NextResume]_vars

-----------------------------------------------------------------------------
(* Harness for the pure functions: Init draws the arguments, one action     *)
(* per function applies it.                                                 *)

SmallDays == 0..MaxDay

SmallRanges == {DateRange(a, b) : a \in SmallDays, b \in SmallDays} \cap
               {r \in [start_date : SmallDays, end_date : SmallDays] : r.start_date <= r.end_date}

DateLists == UNION {[1..n -> SmallDays] : n \in 0..MaxLen}

\* the sparse calendar: a few days of each year
YearOffsets == {0, 1, 200, 364}
SparseDays == {y * DAYS_365 + o : y \in 0..MaxYears, o \in YearOffsets}
SparseRanges == {r \in [start_date : SparseDays, end_date : SparseDays] :
                     r.start_date <= r.end_date}

\* ascending, pairwise non-overlapping lists of DateRanges
Ascending(rs) == \A i \in 1..(Len(rs) - 1) : rs[i].end_date < rs[i + 1].start_date
RangeLists == {rs \in UNION {[1..n -> SparseRanges] : n \in 0..MaxRanges} : Ascending(rs)}

\* the clock of the client and the reset times the service may send, in
\* seconds: up to half an hour before and after utc_now
ClockTimes == {1800}
ResetOffsets == {-1800, -181, -180, 0, 1800}
HarnessHeaders ==
    {Headers(remaining, 300, t + o) :
        remaining \in {0, 5}, t \in ClockTimes, o \in {-181, 1800}}
HarnessResponses ==
    {HttpResponse(code, h, Content("data", {})) :
        code \in {200, HTTP_400, HTTP_403, HTTP_500}, h \in HarnessHeaders}
\* the rate-limit fields left by an earlier response
EarlierRateLimit == _set_rate_limit_params(Headers(7, 299, 600))

\* the answers the data service may give to a poll
PollResponses ==
    {Accepted202, NominalResponse("data", {1}), NominalResponse("data", {}),
     QuotaExhausted, ServerError}

\* the end of the window handed to _record_gaps
GapDateTo == DAYS_365 + 2

\* rows of a batch answer: at both ends of the window and next to them, with
\* or without a power reading
GapRows ==
    [ts : {GapDateTo - DAYS_365, GapDateTo - DAYS_365 + 1, GapDateTo - 1, GapDateTo},
     power : {NaT, 1}]

\* the store _record_gaps writes to: new, or holding records of both systems
GapStores ==
    {EmptyStore,
     [EmptyStore EXCEPT !.missing_dates =
         <<[pv_system_id |-> 2, missing_start_date |-> 1, missing_end_date |-> 1],
           [pv_system_id |-> 1, missing_start_date |-> GapDateTo - DAYS_365,
            missing_end_date |-> GapDateTo - DAYS_365]>>]}

NoArgs == [op |-> "none", a |-> None, b |-> None, dates |-> <<>>, ranges |-> <<>>]

HarnessInputs ==
    {[NoArgs EXCEPT !.op = "intersection", !.a = a, !.b = b] :
        a \in SmallRanges, b \in SmallRanges}
    \cup {[NoArgs EXCEPT !.op = "get_date_range_list", !.dates = ds] : ds \in DateLists}
    \cup {[NoArgs EXCEPT !.op = "split_into_years", !.a = a] : a \in SparseRanges}
    \cup {[NoArgs EXCEPT !.op = "wait_for_rate_limit_reset",
                         !.a = [self |-> _set_rate_limit_params(Headers(0, 300, t + o)),
                                utc_now |-> t, do_sleeping |-> b]] :
             t \in ClockTimes, o \in ResetOffsets, b \in BOOLEAN}
    \cup {[NoArgs EXCEPT !.op = "get_batch_status",
                         !.a = [max_retries |-> n, responses |-> rs]] :
             n \in 0..MaxPolls, rs \in [1..MaxPolls -> PollResponses]}
    \cup {[NoArgs EXCEPT !.op = "_process_api_response",
                         !.a = [self |-> EarlierRateLimit, response |-> r]] :
             r \in HarnessResponses}
    \cup {[NoArgs EXCEPT !.op = "_api_query",
                         !.a = [self |-> EarlierRateLimit, utc_now |-> t,
                                wait_if_rate_limit_exceeded |-> b, responses |-> rs]] :
             t \in ClockTimes, b \in BOOLEAN, rs \in [1..3 -> HarnessResponses]}
    \cup {[NoArgs EXCEPT !.op = "merge_date_ranges_to_years", !.ranges = rs] :
             rs \in RangeLists}
    \cup {[NoArgs EXCEPT !.op = "_api_query_sent",
                         !.a = [service |-> sv, use_data_service |-> u,
                                wait_if_rate_limit_exceeded |-> b, utc_now |-> t,
                                responses |-> rs]] :
             sv \in {"getstatus", "getbatchstatus"}, u \in BOOLEAN, b \in BOOLEAN,
             t \in ClockTimes, rs \in [1..2 -> HarnessResponses]}
    \cup {[NoArgs EXCEPT !.op = "_record_gaps",
                         !.a = [store |-> st, date_to |-> GapDateTo, timeseries |-> ts]] :
             st \in GapStores, ts \in (SUBSET GapRows) \ {{}}}

InitDR ==
    /\ fin \in HarnessInputs
    /\ fop = "none"
    /\ fout = None
    /\ remote = [s \in Systems |-> {}]
    /\ req_start_date = 1
    /\ req_end_date = 1
    /\ store = EmptyStore
    /\ run = 0
    /\ mode = "none"
    /\ outcome = "none"
    /\ prev = [mode |-> "none", outcome |-> "none"]
    /\ pc = "idle"
    /\ loop_i = 0
    /\ date_ranges_to_download = <<>>
    /\ worker_dates = <<>>
    /\ total_rows = 0
    /\ df = <<>>
    /\ nreq = 0
    /\ visited = {}
    /\ faults = 0
    /\ killed_before_de_dupe = {}

Call_intersection ==
    /\ fop = "none" /\ fin.op = "intersection"
    /\ fop' = "intersection"
    /\ fout' = intersection(fin.a, fin.b)
    /\ UNCHANGED <<fin, ovars>>

Call_get_date_range_list ==
    /\ fop = "none" /\ fin.op = "get_date_range_list"
    /\ fop' = "get_date_range_list"
    /\ fout' = get_date_range_list(fin.dates)
    /\ UNCHANGED <<fin, ovars>>

Call_merge_date_ranges_to_years ==
    /\ fop = "none" /\ fin.op = "merge_date_ranges_to_years"
    /\ fop' = "merge_date_ranges_to_years"
    /\ fout' = merge_date_ranges_to_years(fin.ranges)
    /\ UNCHANGED <<fin, ovars>>

Call_split_into_years ==
    /\ fop = "none" /\ fin.op = "split_into_years"
    /\ fop' = "split_into_years"
    /\ fout' = split_into_years(fin.a)
    /\ UNCHANGED <<fin, ovars>>

Call_wait_for_rate_limit_reset ==
    /\ fop = "none" /\ fin.op = "wait_for_rate_limit_reset"
    /\ fop' = "wait_for_rate_limit_reset"
    /\ fout' = wait_for_rate_limit_reset(fin.a.self, fin.a.utc_now, fin.a.do_sleeping)
    /\ UNCHANGED <<fin, ovars>>

Call_process_api_response ==
    /\ fop = "none" /\ fin.op = "_process_api_response"
    /\ fop' = "_process_api_response"
    /\ fout' = [result |-> _process_api_response(fin.a.response),
                rate_limit |-> rate_limit_after(fin.a.self, fin.a.response)]
    /\ UNCHANGED <<fin, ovars>>

Call_api_query ==
    /\ fop = "none" /\ fin.op = "_api_query"
    /\ fop' = "_api_query"
    /\ fout' = _api_query_self(fin.a.self, fin.a.utc_now,
                               fin.a.wait_if_rate_limit_exceeded, fin.a.responses)
    /\ UNCHANGED <<fin, ovars>>

Call_get_batch_status ==
    /\ fop = "none" /\ fin.op = "get_batch_status"
    /\ fop' = "get_batch_status"
    /\ fout' = get_batch_status(1, 1, fin.a.max_retries, fin.a.responses)
    /\ UNCHANGED <<fin, ovars>>

Call_record_gaps ==
    /\ fop = "none" /\ fin.op = "_record_gaps"
    /\ fop' = "_record_gaps"
    /\ fout' = _record_gaps(fin.a.store, 1, fin.a.date_to, dates_of_data(fin.a.timeseries))
    /\ UNCHANGED <<fin, ovars>>

Call_api_query_sent ==
    /\ fop = "none" /\ fin.op = "_api_query_sent"
    /\ fop' = "_api_query_sent"
    /\ fout' = _api_query_sent(EarlierRateLimit, fin.a.utc_now, fin.a.service, "dt",
                               fin.a.wait_if_rate_limit_exceeded,
                               fin.a.use_data_service, fin.a.responses)
    /\ UNCHANGED <<fin, ovars>>

NextDR ==
    \/ Call_api_query_sent
    \/ Call_record_gaps
    \/ Call_intersection
    \/ Call_get_batch_status
    \/ Call_wait_for_rate_limit_reset
    \/ Call_process_api_response
    \/ Call_api_query
    \/ Call_split_into_years
    \/ Call_get_date_range_list
    \/ Call_merge_date_ranges_to_years

SpecDR == InitDR /\ [][NextDR]_vars

-----------------------------------------------------------------------------
(* Properties of the pure functions, checked under SpecDR *)

DatesOfRange(r) == r.start_date .. r.end_date
DatesOfRanges(rs) == UNION {DatesOfRange(rs[i]) : i \in 1..Len(rs)}
ElemsOf(s) == {s[i] : i \in 1..Len(s)}

\* C7: for a<=b and c<=d, DateRange(a,b).intersection(DateRange(c,d)) is None
\* exactly when max(a,c) >= min(b,d), and otherwise it is
\* DateRange(max(a,c), min(b,d)); an overlap of a single day yields None.
C7_IntersectionNoneIff ==
    fop = "intersection" =>
        LET lo == Max2(fin.a.start_date, fin.b.start_date)
            hi == Min2(fin.a.end_date, fin.b.end_date)
        IN /\ (fout = None) <=> (lo >= hi)
           /\ (fout # None) => (fout.start_date = lo /\ fout.end_date = hi)
           /\ (lo = hi) => (fout = None)

C7_Witness ==
    /\ fop = "intersection"
    /\ fin.a.start_date < fin.a.end_date
    /\ fin.a.end_date = fin.b.start_date
    /\ fin.b.start_date < fin.b.end_date
    /\ fout = None

\* C8: get_date_range_list returns ranges in ascending order whose dates are
\* exactly the input dates, consecutive ranges are more than one day apart,
\* an isolated date gives a range with start_date = end_date, and an empty
\* input gives an empty list.
C8_DateRangeList ==
    fop = "get_date_range_list" =>
        /\ (fin.dates = <<>>) => (fout = <<>>)
        /\ \A i \in 1..Len(fout) : fout[i].start_date <= fout[i].end_date
        /\ DatesOfRanges(fout) = ElemsOf(fin.dates)
        /\ \A i \in 1..(Len(fout) - 1) : fout[i + 1].start_date - fout[i].end_date > 1
        /\ \A d \in ElemsOf(fin.dates) :
              (d - 1 \notin ElemsOf(fin.dates) /\ d + 1 \notin ElemsOf(fin.dates))
                  => \E i \in 1..Len(fout) : fout[i] = DateRange(d, d)

C8_Witness ==
    /\ fop = "get_date_range_list"
    /\ Len(fin.dates) = 4
    /\ fin.dates[1] > fin.dates[2]
    /\ Len(fout) = 2
    /\ fout[1].start_date = fout[1].end_date
    /\ fout[2].start_date < fout[2].end_date

\* C9: for an ascending, pairwise non-overlapping input, every date of every
\* input range lies inside a window returned by merge_date_ranges_to_years,
\* and the windows are ordered newest-first.
C9_MergeCoverage ==
    fop = "merge_date_ranges_to_years" =>
        /\ \A i \in 1..Len(fin.ranges) :
              \A d \in DatesOfRange(fin.ranges[i]) :
                  \E j \in 1..Len(fout) : d \in DatesOfRange(fout[j])
        /\ \A j \in 1..(Len(fout) - 1) :
              /\ fout[j].end_date > fout[j + 1].end_date
              /\ fout[j].start_date > fout[j + 1].start_date

C9_Witness ==
    /\ fop = "merge_date_ranges_to_years"
    /\ Len(fin.ranges) = 2
    /\ \A i \in 1..2 : fin.ranges[i].start_date < fin.ranges[i].end_date
    /\ \E i \in 1..2 : total_days(fin.ranges[i]) > DAYS_365
    /\ Len(fout) >= 2

\* C10: for an ascending, pairwise non-overlapping input, consecutive windows
\* w[i] (newer) and w[i+1] (older) of merge_date_ranges_to_years satisfy
\* w[i+1].end_date <= w[i].start_date, and the number of windows is not
\* raised by a candidate lying inside the window chosen last.
C10_MergeNonOverlap ==
    fop = "merge_date_ranges_to_years" =>
        \A j \in 1..(Len(fout) - 1) : fout[j + 1].end_date <= fout[j].start_date

\* C11: merge_date_ranges_to_years([]) is []; for a non-empty input every
\* window has end_date - start_date = 365 days and the first window ends at
\* the end_date of the newest input range; a single range of at most 365 days
\* (so of at most one month) gives exactly one window, ending at its end_date.
C11_MergeWindows ==
    fop = "merge_date_ranges_to_years" =>
        /\ (fin.ranges = <<>>) => (fout = <<>>)
        /\ (fin.ranges # <<>>) =>
              /\ fout # <<>>
              /\ \A j \in 1..Len(fout) : fout[j].end_date - fout[j].start_date = DAYS_365
              /\ fout[1].end_date = fin.ranges[Len(fin.ranges)].end_date
        /\ (Len(fin.ranges) = 1 /\ total_days(fin.ranges[1]) <= DAYS_365) =>
              /\ Len(fout) = 1
              /\ fout[1].end_date = fin.ranges[1].end_date

C11_Witness ==
    /\ fop = "merge_date_ranges_to_years"
    /\ Len(fin.ranges) = 2
    /\ fin.ranges[1].end_date < fin.ranges[2].start_date
    /\ Len(fout) = 2
    /\ fout[1] = DateRange(fin.ranges[2].end_date - DAYS_365, fin.ranges[2].end_date)

\* C12: split_into_years returns [self] for a range of at most 365 days; for
\* a longer one it returns windows newest-first: the first ends at the
\* original end_date, the last starts at the original start_date, every
\* window has 0 < end_date - start_date <= 365, and each window starts where
\* the next (older) one ends.
C12_SplitIntoYears ==
    fop = "split_into_years" =>
        IF total_days(fin.a) <= DAYS_365 THEN fout = <<fin.a>>
        ELSE /\ Len(fout) >= 2
             /\ fout[1].end_date = fin.a.end_date
             /\ fout[Len(fout)].start_date = fin.a.start_date
             /\ \A j \in 1..Len(fout) :
                   /\ 0 < total_days(fout[j])
                   /\ total_days(fout[j]) <= DAYS_365
             /\ \A j \in 1..(Len(fout) - 1) : fout[j].start_date = fout[j + 1].end_date

\* a range longer than 365 days split in two, the older window shorter than
\* 365 days because it is clamped to the original start_date
C12_Witness ==
    /\ fop = "split_into_years"
    /\ total_days(fin.a) > DAYS_365
    /\ Len(fout) = 2
    /\ total_days(fout[1]) = DAYS_365
    /\ total_days(fout[2]) < DAYS_365
    /\ fout[2].start_date = fin.a.start_date

\* C13: wait_for_rate_limit_reset returns max(0, (rate_limit_reset_time -
\* now) + 180 s), never a negative number, 1980 s when the reset time is 30
\* minutes after now, and with do_sleeping false it does not sleep.
C13_WaitNeverNegative ==
    fop = "wait_for_rate_limit_reset" =>
        LET due == (fin.a.self.rate_limit_reset_time - fin.a.utc_now) + SAFETY_SECS
        IN /\ ~IsRaised(fout.result)
           /\ fout.result.value = Max2(0, due)
           /\ (fin.a.self.rate_limit_reset_time - fin.a.utc_now = 1800)
                  => fout.result.value = 1980
           /\ ~fin.a.do_sleeping => fout.slept = 0

\* the response is quota-exhausted: 403 with no request remaining
IsQuotaExhausted(response) ==
    response.status_code = HTTP_403 /\ response.headers.rate_limit_remaining <= 0

\* C14: _api_query with wait_if_rate_limit_exceeded=True, answered
\* quota-exhausted, waits once and re-issues the request once; a second
\* quota-exhausted response raises RateLimitExceeded; a call makes at most
\* two requests and one wait.
C14_WaitThenSingleRetry ==
    fop = "_api_query" =>
        /\ fout.requests <= 2 /\ fout.waits <= 1
        /\ (fin.a.wait_if_rate_limit_exceeded /\ IsQuotaExhausted(fin.a.responses[1])) =>
              /\ fout.requests = 2 /\ fout.waits = 1
              /\ IsQuotaExhausted(fin.a.responses[2]) =>
                     (IsRaised(fout.result)
                        /\ fout.result.exception = "RateLimitExceeded")

\* C14 holds for every call whose computed wait is not negative
C14_WhenWaitNotNegative ==
    (fop = "_api_query"
        /\ (fin.a.responses[1].headers.rate_limit_reset_time - fin.a.utc_now)
              + SAFETY_SECS >= 0)
      => /\ fout.requests <= 2 /\ fout.waits <= 1
         /\ (fin.a.wait_if_rate_limit_exceeded /\ IsQuotaExhausted(fin.a.responses[1])) =>
               /\ fout.requests = 2 /\ fout.waits = 1
               /\ IsQuotaExhausted(fin.a.responses[2]) =>
                      (IsRaised(fout.result)
                         /\ fout.result.exception = "RateLimitExceeded")

\* C15: _api_query with wait_if_rate_limit_exceeded=False, answered
\* quota-exhausted, raises RateLimitExceeded after that one request and
\* without a wait, and the error carries the reset time of that response.
C15_RaisedWithoutWaiting ==
    (fop = "_api_query" /\ ~fin.a.wait_if_rate_limit_exceeded
        /\ IsQuotaExhausted(fin.a.responses[1])) =>
        /\ IsRaised(fout.result)
        /\ fout.result.exception = "RateLimitExceeded"
        /\ fout.requests = 1 /\ fout.waits = 0
        /\ fout.result.response = fin.a.responses[1]
        /\ fout.result.reset_time = fin.a.responses[1].headers.rate_limit_reset_time

C15_Witness ==
    /\ fop = "_api_query" /\ ~fin.a.wait_if_rate_limit_exceeded
    /\ IsQuotaExhausted(fin.a.responses[1])
    /\ fin.a.self.rate_limit_reset_time # fin.a.responses[1].headers.rate_limit_reset_time
    /\ fout.result.exception = "RateLimitExceeded"
    /\ fout.result.reset_time = fin.a.responses[1].headers.rate_limit_reset_time
    /\ fout.requests = 1

\* C16: get_batch_status sends at most max_retries requests, sleeps only
\* between two polls and never after the last one, returns None exactly when
\* each of the max_retries answers was 'Accepted 202', and stops at the first
\* answer that is not 'Accepted 202'.
C16_BatchPolling ==
    fop = "get_batch_status" =>
        LET n == fin.a.max_retries
            others == {k \in 1..n : fin.a.responses[k] # Accepted202}
        IN /\ fout.requests <= n
           /\ (fout.result = None) <=> (others = {})
           /\ \A k \in others :
                 (\A j \in others : k <= j) => fout.requests = k
           /\ fout.requests > 0 => fout.sleeps = fout.requests - 1
           /\ fout.requests = 0 => fout.sleeps = 0

\* three polls answered 'Accepted 202': None after three requests and two
\* sleeps
C16_Witness ==
    /\ fop = "get_batch_status"
    /\ fin.a.max_retries = MaxPolls
    /\ \A k \in 1..MaxPolls : fin.a.responses[k] = Accepted202
    /\ fout.result = None
    /\ fout.requests = MaxPolls
    /\ fout.sleeps = MaxPolls - 1

\* C19: after every response handled by _process_api_response the stored
\* rate_limit_remaining, rate_limit_total and rate_limit_reset_time are the
\* values of the headers of that response.
C19_RateLimitRefreshed ==
    fop = "_process_api_response" =>
        fout.rate_limit = _set_rate_limit_params(fin.a.response.headers)

\* C19 holds for the responses that are neither a 400 nor another bad status
C19_WhenNotBadStatus ==
    (fop = "_process_api_response"
        /\ (fin.a.response.status_code < HTTP_400 \/ fin.a.response.status_code = HTTP_403))
      => fout.rate_limit = _set_rate_limit_params(fin.a.response.headers)

\* the records _record_gaps has appended to the store it was given
NewGapRecords ==
    {fout.missing_dates[k] :
         k \in (Len(fin.a.store.missing_dates) + 1)..Len(fout.missing_dates)}

\* C21: after _record_gaps has processed a non-empty window ending at
\* date_to, every date of [date_to - 365 days, date_to] without a non-null
\* power reading lies inside a MissingDateRange of the system, no date with
\* such a reading lies inside a newly recorded range, and the newly recorded
\* ranges are the maximal runs of consecutive missing dates
C21_GapsRecorded ==
    fop = "_record_gaps" =>
        LET window == (fin.a.date_to - DAYS_365)..fin.a.date_to
            with_reading == {r.ts : r \in {x \in fin.a.timeseries : x.power # NaT}}
            missing == window \ with_reading
        IN /\ \A d \in missing :
                  \E rec \in {r \in NewGapRecords \cup
                                   {fin.a.store.missing_dates[k] :
                                        k \in 1..Len(fin.a.store.missing_dates)} :
                                   r.pv_system_id = 1} :
                      rec.missing_start_date <= d /\ d <= rec.missing_end_date
           /\ \A rec \in NewGapRecords :
                  /\ rec.pv_system_id = 1
                  /\ rec.missing_start_date <= rec.missing_end_date
                  /\ \A d \in rec.missing_start_date..rec.missing_end_date :
                         d \in missing
                  /\ rec.missing_start_date - 1 \notin missing
                  /\ rec.missing_end_date + 1 \notin missing
           /\ \A d \in missing :
                  \E rec \in NewGapRecords :
                      rec.missing_start_date <= d /\ d <= rec.missing_end_date

\* the window had readings at both of its ends and a row without a reading:
\* two or more runs were recorded, one of them for the date of the null row
C21_Witness ==
    /\ fop = "_record_gaps"
    /\ Cardinality(NewGapRecords) >= 2
    /\ \E r \in fin.a.timeseries :
           /\ r.power = NaT
           /\ \A x \in fin.a.timeseries : x.ts = r.ts => x.power = NaT
           /\ \E rec \in NewGapRecords :
                  rec.missing_start_date = r.ts /\ rec.missing_end_date = r.ts

\* C26: the request _api_query re-issues after a rate-limit wait goes to the
\* endpoint of the original request: same service, same parameters, same
\* choice between the data-service URL and the standard API URL
C26_RetrySameEndpoint ==
    fop = "_api_query_sent" => \A k \in 1..Len(fout) : fout[k] = fout[1]

\* the re-issued request has the service and the parameters of the original
\* one, and its URL too when the original went to the standard API
C26_RetrySameServiceAndParams ==
    fop = "_api_query_sent" =>
        \A k \in 1..Len(fout) :
            /\ fout[k].service = fout[1].service
            /\ fout[k].api_params = fout[1].api_params
            /\ ~fin.a.use_data_service => fout[k].url = fout[1].url

\* C27: _process_api_response hands the content of a response to its caller
\* only for a successful response: every response with an error status, a
\* 403 with quota remaining included, gives an exception
C27_ErrorStatusRaises ==
    (fop = "_process_api_response" /\ fin.a.response.status_code >= HTTP_400)
        => IsRaised(fout.result)

\* every error status other than a 403 with quota remaining gives an
\* exception, and a successful response gives its content
C27_ExceptForbiddenWithQuota ==
    fop = "_process_api_response" =>
        LET response == fin.a.response
        IN /\ (response.status_code >= HTTP_400
                  /\ ~(response.status_code = HTTP_403
                         /\ response.headers.rate_limit_remaining > 0))
                 => IsRaised(fout.result)
           /\ response.status_code < HTTP_400 => fout.result = Returned(response.content)

-----------------------------------------------------------------------------
(* The download orchestrator: what the store covers *)

ExceptionNames == {"KeyError", "HTTPError", "RateLimitExceeded", "ValueError",
                   "AttributeError"}

RowsOf(st, s) == {st.timeseries[s][k] : k \in 1..Len(st.timeseries[s])}

\* the MissingDateRange records of system s
MissingRecordsOf(st, s) ==
    {st.missing_dates[k] : k \in {j \in 1..Len(st.missing_dates) :
                                      st.missing_dates[j].pv_system_id = s}}

\* date d is the index date or the query_date of a stored row of s, or lies
\* inside a MissingDateRange recorded for s
IsCovered(st, s, d) ==
    \/ \E row \in RowsOf(st, s) : row.ts = d \/ row.query_date = d
    \/ \E rec \in MissingRecordsOf(st, s) :
           rec.missing_start_date <= d /\ d <= rec.missing_end_date

\* the dates a run from the empty store that is neither interrupted nor met
\* by a faulty response requests for s: the still-needed ranges as
\* _filter_date_range leaves them.  Each is given rows or a MissingDateRange.
UninterruptedCoverage(s) ==
    LET needed == get_date_ranges_to_download(EmptyStore, s, req_start_date,
                                              req_end_date).value
        stats == get_statistic(Today, TRUE,
                     Pad(<<NominalResponse("statistic", remote[s])>>)).result.value
    IN DatesOfRanges(_filter_date_range(needed, stats))

\* a first run that completes without meeting a faulty response covers these
\* dates for the first system
UninterruptedRunCovers ==
    (run = 1 /\ outcome = "completed" /\ faults = 0)
        => \A d \in UninterruptedCoverage(system_ids[1]) :
               IsCovered(store, system_ids[1], d)

\* C1 as the claim states it: a run that follows a completed run with the same
\* arguments sends no request
C1_RoundTripZeroRequests ==
    (run >= 2 /\ prev.outcome = "completed" /\ prev.mode = mode) => nreq = 0

\* C1: a run that follows a completed run with the same arguments sends no
\* timeseries or statistics request, provided end_date is not later than the
\* day on which the completed run cached the statistics
C1_RoundTripZeroRequestsUpToQueryDate ==
    (run >= 2 /\ prev.outcome = "completed" /\ prev.mode = mode
        /\ req_end_date <= Today) => nreq = 0

\* the second run has completed without a request over a store that holds
\* rows, while a requested date of some system is still not covered (it is
\* filtered out again)
C1_Witness ==
    /\ run = 2 /\ outcome = "completed"
    /\ prev.outcome = "completed" /\ prev.mode = mode
    /\ req_end_date <= Today
    /\ nreq = 0
    /\ \E s \in Systems : store.timeseries[s] # <<>>
    /\ \E s \in Systems : \E d \in req_start_date..req_end_date : ~IsCovered(store, s, d)

\* C2: when the first run is interrupted and the re-run with the same
\* arguments completes, every requested date an uninterrupted run would have
\* covered for the first system is covered by rows or a MissingDateRange
C2_Resumable ==
    (run = 2 /\ outcome = "completed" /\ prev.outcome = "interrupted"
        /\ prev.mode = mode)
        => \A d \in UninterruptedCoverage(system_ids[1]) :
               IsCovered(store, system_ids[1], d)

\* C3: when the processing of a system fails, every system id of system_ids
\* is still processed
C3_FailSoft == (outcome \in ExceptionNames) => visited = Systems

\* C4: a quota-exhausted response never ends the download with
\* RateLimitExceeded, on either path
C4_QuotaNeverSurfaces == outcome # "RateLimitExceeded"

\* the table of s is in strictly ascending timestamp order
SortedUnique(st, s) ==
    \A k \in 1..(Len(st.timeseries[s]) - 1) :
        st.timeseries[s][k].ts < st.timeseries[s][k + 1].ts

\* C5: once _download_multiple_using_get_batch_status has returned for a
\* system with at least one row retrieved, the table of the system is sorted
\* by timestamp and has no two rows with the same timestamp
C5_SortedUniqueAfterBatch ==
    (outcome = "running" /\ pc = "loop" /\ loop_i >= 1 /\ total_rows > 0)
        => SortedUnique(store, cur_system)

\* the batch pass has returned and fewer rows carry the query_date of its one
\* window than the window retrieved: a retrieved row fell on the timestamp of
\* a row stored earlier, and one of the two was dropped
C5_Witness ==
    /\ outcome = "running" /\ pc = "loop" /\ loop_i >= 1 /\ total_rows > 0
    /\ date_ranges_to_download # <<>>
    /\ Len(merge_date_ranges_to_years(date_ranges_to_download)) = 1
    /\ LET date_to == date_ranges_to_download[Len(date_ranges_to_download)].end_date
       IN /\ \E row \in RowsOf(store, cur_system) : row.query_date # date_to
          /\ Len(store.timeseries[cur_system]) < total_rows +
                Cardinality({row \in RowsOf(store, cur_system) : row.query_date # date_to})

\* C6: for every system, get_date_ranges_to_download returns ascending
\* DateRanges whose dates are exactly the requested dates that are neither an
\* index date nor a query_date of a row of the system nor inside a
\* MissingDateRange of the system
C6_DateRangesToDownload ==
    \A s \in Systems :
        LET r == get_date_ranges_to_download(store, s, req_start_date, req_end_date)
        IN /\ ~IsRaised(r)
           /\ Ascending(r.value)
           /\ DatesOfRanges(r.value) =
                  {d \in req_start_date..req_end_date : ~IsCovered(store, s, d)}

\* the result of get_date_ranges_to_download is the one C6 describes whenever
\* the call returns
C6_WhenReturned ==
    \A s \in Systems :
        LET r == get_date_ranges_to_download(store, s, req_start_date, req_end_date)
        IN IsRaised(r) \/
           /\ Ascending(r.value)
           /\ DatesOfRanges(r.value) =
                  {d \in req_start_date..req_end_date : ~IsCovered(store, s, d)}

\* the step is one iteration of the per-day worker
PerDayStep == outcome = "running" /\ pc = "get_status"

\* the step received the answer the service has for the requested date (every
\* response before it was a fault the client waited on)
NominalAnswerReceived == nreq' - nreq = (faults' - faults) + 1

\* C17: on the per-day path, when the service has nothing for the requested
\* date d, the worker records exactly one MissingDateRange (system, d, d),
\* appends no row, and goes on to the next date without requesting d again
C17_EmptyDayRecorded ==
    [][(PerDayStep /\ NominalAnswerReceived
            /\ Head(worker_dates) \notin remote[cur_system])
        => /\ outcome' = "running"
           /\ store'.missing_dates =
                  Append(store.missing_dates,
                         [pv_system_id |-> cur_system,
                          missing_start_date |-> Head(worker_dates),
                          missing_end_date |-> Head(worker_dates)])
           /\ store'.timeseries = store.timeseries
           /\ worker_dates' = Tail(worker_dates)]_vars

\* a per-day run has recorded a one-day MissingDateRange for a date the
\* service has nothing for, and no row of that date is stored
C17_Witness ==
    /\ mode = "status" /\ run = 1
    /\ \E s \in Systems : \E rec \in MissingRecordsOf(store, s) :
           /\ rec.missing_start_date = rec.missing_end_date
           /\ rec.missing_start_date \notin remote[s]
           /\ \A row \in RowsOf(store, s) :
                  row.ts # rec.missing_start_date
                      /\ row.query_date # rec.missing_start_date

\* the smallest and the largest element of a non-empty set of days
FirstOf(rows) == CHOOSE d \in rows : \A e \in rows : d <= e
LastOf(rows) == CHOOSE d \in rows : \A e \in rows : d >= e

\* check_pv_system_status raises exactly for the answers whose first or last
\* timestamp is outside [requested date, requested date + 1 day]
ValidationRaisesWhenOutside ==
    PerDayStep =>
        LET d == Head(worker_dates)
        IN \A rows \in (SUBSET ((d - 1)..(d + 2))) \ {{}} :
               IsRaised(check_pv_system_status(rows, d))
                   <=> (\E t \in {FirstOf(rows), LastOf(rows)} : t < d \/ t > d + 1)

\* C18: on the per-day path check_pv_system_status raises ValueError when
\* the first or last returned timestamp is outside [d, d + 1 day] and raises
\* nothing when both are inside; when it raises, no row of the response is
\* appended and no MissingDateRange is recorded
C18_ValidationOnPerDayPath ==
    /\ []ValidationRaisesWhenOutside
    /\ [][PerDayStep =>
            /\ (outcome' = "ValueError") => (store' = store)
            /\ \A k \in (Len(store.timeseries[cur_system]) + 1)
                            ..Len(store'.timeseries[cur_system]) :
                   LET ts == store'.timeseries[cur_system][k].ts
                   IN Head(worker_dates) <= ts /\ ts <= Head(worker_dates) + 1]_vars

\* a per-day run that requested no future date ended with ValueError: the
\* validation rejected an answer
C18_Witness ==
    /\ mode = "status" /\ outcome = "ValueError"
    /\ req_end_date <= Today
    /\ nreq > 0


\* the step is one iteration of the batch worker in which every poll of
\* get_batch_status was answered "Accepted 202", so that it returned None
PollingExhaustedStep ==
    /\ outcome = "running" /\ pc = "get_batch_status"
    /\ nreq' - nreq = DEFAULT_MAX_RETRIES

C20_StoreUnchanged ==
    [][PollingExhaustedStep => store' = store]_vars

\* None has no attribute `empty`: the invocation ends there
C20_EndsWithAttributeError ==
    [][PollingExhaustedStep => outcome' = "AttributeError"]_vars


\* the step is sort_and_de_dupe_pv_system reading, sorting and de-duplicating
\* the table of the current system
DeDupeStep == outcome = "running" /\ pc = "sort_and_de_dupe" /\ pc' = "de_dupe_append"

\* the row with timestamp t that was appended to rows last
LastAppended(rows, t) ==
    rows[CHOOSE k \in 1..Len(rows) :
             rows[k].ts = t /\ \A j \in (k + 1)..Len(rows) : rows[j].ts # t]

\* C22: of several stored rows of a system with the same timestamp,
\* sort_and_de_dupe_pv_system retains the one that was appended last
C22_LastWriteWins ==
    [][DeDupeStep =>
           \A k \in 1..Len(df') :
               df'[k] = LastAppended(store.timeseries[cur_system], df'[k].ts)]_vars

\* the retained row of a timestamp is one of the stored rows of that timestamp
C22_RetainsAStoredRow ==
    [][DeDupeStep =>
           \A k \in 1..Len(df') :
               \E j \in 1..Len(store.timeseries[cur_system]) :
                   df'[k] = store.timeseries[cur_system][j]]_vars


\* C23: the MissingDateRange table is append-only: every step of
\* download_multiple_systems_to_disk leaves the records already in the table
\* as they are, those of other system ids included, and the records it adds
\* belong to the system being processed
C23_MissingDatesAppendOnly ==
    [][/\ Len(store'.missing_dates) >= Len(store.missing_dates)
       /\ SubSeq(store'.missing_dates, 1, Len(store.missing_dates)) = store.missing_dates
       /\ \A k \in (Len(store.missing_dates) + 1)..Len(store'.missing_dates) :
              store'.missing_dates[k].pv_system_id = cur_system]_vars

\* the table holds records of both systems, a record of the first system
\* before one of the second, and the de-duplication pass of the second
\* system has run
C23_Witness ==
    /\ mode = "batch" /\ outcome = "running" /\ pc = "loop" /\ loop_i = 2
    /\ total_rows > 0
    /\ \E j, k \in 1..Len(store.missing_dates) :
           /\ j < k
           /\ store.missing_dates[j].pv_system_id = system_ids[1]
           /\ store.missing_dates[k].pv_system_id = system_ids[2]


\* the for loop of download_multiple_systems_to_disk is about to take its
\* next system id
AtLoopHead == outcome = "running" /\ pc = "loop" /\ loop_i < Len(system_ids)

\* C24: whenever the orchestrator computes the still-needed ranges of its
\* next system, the computation succeeds, and with no MissingDateRange
\* recorded yet it takes the set of missing dates to be empty, also when the
\* store file exists already
C24_NeededRangesComputed ==
    AtLoopHead =>
        LET s == system_ids[loop_i + 1]
            r == get_date_ranges_to_download(store, s, req_start_date, req_end_date)
        IN /\ ~IsRaised(r)
           /\ store.missing_dates = <<>> =>
                  DatesOfRanges(r.value) =
                      (req_start_date..req_end_date) \ get_dates_already_downloaded(store, s)

\* the computation succeeds when the store file is absent or holds a
\* MissingDateRange record
C24_WhenAbsentOrRecorded ==
    (AtLoopHead /\ (~store_exists(store) \/ store.missing_dates # <<>>)) =>
        ~IsRaised(get_date_ranges_to_download(store, system_ids[loop_i + 1],
                                              req_start_date, req_end_date))


\* the dates of the request that lie within the available data span of s,
\* for a system whose statistic passes the availability threshold
NeededWithinSpan(s) ==
    LET stats == store.statistics[s]
    IN IF stats = None THEN {}
       ELSE IF stats.actual_date_from = NaT \/ stats.actual_date_to = NaT THEN {}
       ELSE IF 2 * stats.num_outputs
                   < total_days(DateRange(stats.actual_date_from, stats.actual_date_to)) + 1
       THEN {}
       ELSE {d \in req_start_date..req_end_date :
                 stats.actual_date_from <= d /\ d <= stats.actual_date_to}

\* C25: once an invocation has completed, every requested date within the
\* available data span of a system is covered by a row or by a
\* MissingDateRange of that system, a date that forms a one-day still-needed
\* range included
C25_NeededDatesCovered ==
    outcome = "completed" =>
        \A s \in Systems : \A d \in NeededWithinSpan(s) : IsCovered(store, s, d)

\* every still-needed range that overlaps the available span in more than
\* one day is downloaded: after a completed invocation an uncovered date of
\* the span has no uncovered neighbour inside the span
C25_OnlyIsolatedDatesDropped ==
    outcome = "completed" =>
        \A s \in Systems : \A d \in NeededWithinSpan(s) :
            ~IsCovered(store, s, d) =>
                \A e \in {d - 1, d + 1} \cap NeededWithinSpan(s) : IsCovered(store, s, e)


\* no two rows of the table of s have the same timestamp
UniqueTimestamps(st, s) ==
    \A j, k \in 1..Len(st.timeseries[s]) :
        j # k => st.timeseries[s][j].ts # st.timeseries[s][k].ts

\* the invocation before this one was a batch download killed after it had
\* appended the rows of the windows of system s and before it called
\* sort_and_de_dupe_pv_system
InterruptedBeforeDeDupe(s) ==
    /\ prev.mode = "batch" /\ prev.outcome = "interrupted"
    /\ s \in killed_before_de_dupe

\* C28: when a batch download of a system has appended rows and is
\* interrupted before the de-duplication pass, and download_multiple_systems_
\* to_disk is invoked again on the batch path and completes, the table of
\* that system has unique timestamps
C28_UniqueAfterResumedBatch ==
    \A s \in Systems :
        (outcome = "completed" /\ mode = "batch" /\ InterruptedBeforeDeDupe(s))
            => UniqueTimestamps(store, s)

\* the table of the system a batch pass has just returned for has unique
\* timestamps whenever the pass retrieved a row
C28_UniqueWhenPassRetrievedRows ==
    (outcome = "running" /\ pc = "loop" /\ loop_i >= 1 /\ total_rows > 0
        /\ mode = "batch")
        => UniqueTimestamps(store, cur_system)

\* the timestamps of the rows the store holds for system s
StoredTimestamps(st, s) == {st.timeseries[s][k].ts : k \in 1..Len(st.timeseries[s])}

\* C29: at the intermediate state of sort_and_de_dupe_pv_system, between
\* store.remove(key) and the write of the de-duplicated rows, the store holds
\* a row for every timestamp the system had before the call (the timestamps
\* of the rows held in memory)
C29_NoTimestampLostInsideDeDupe ==
    (outcome = "running" /\ pc = "de_dupe_append")
        => \A k \in 1..Len(df) : df[k].ts \in StoredTimestamps(store, cur_system)

\* sort_and_de_dupe_pv_system, once it has returned, has kept every timestamp:
\* the steps of the call taken together lose none
C29_NoTimestampLostByCompletedDeDupe ==
    [][(outcome = "running" /\ pc = "de_dupe_append" /\ pc' = "loop")
          => {df[k].ts : k \in 1..Len(df)} = StoredTimestamps(store', cur_system)]_vars

\* the dates of a list are in strictly ascending order
StrictlyAscending(dates) == \A k \in 1..(Len(dates) - 1) : dates[k] < dates[k + 1]

\* the step starts the per-day worker of a system: worker_dates' are the dates
\* it will request
PerDayPassStarts == outcome = "running" /\ pc # "get_status" /\ pc' = "get_status"

\* C30: on the per-day path the dates a pass will request are requested dates
\* that no stored row and no MissingDateRange of the system covered when the
\* pass started, in strictly ascending order (so no date twice); each step of
\* the worker requests the first of them, with at most one more request after
\* a wait, and leaves the others as they were
C30_PerDayRequests ==
    [][/\ PerDayPassStarts =>
            /\ StrictlyAscending(worker_dates')
            /\ \A k \in 1..Len(worker_dates') :
                   /\ worker_dates'[k] \in req_start_date..req_end_date
                   /\ ~IsCovered(store, system_ids[loop_i'], worker_dates'[k])
       /\ PerDayStep =>
            /\ nreq' - nreq <= 2
            /\ pc' = "get_status" => worker_dates' = Tail(worker_dates)]_vars

\* a per-day pass of a second invocation is under way on a system that has
\* covered dates already, has requested a date and has another one to request
C30_Witness ==
    /\ PerDayStep /\ run = 2 /\ nreq > 0
    /\ Len(worker_dates) < Len(all_dates(date_ranges_to_download))
    /\ \E d \in req_start_date..req_end_date :
           IsCovered(store, cur_system, d) /\ d < Head(worker_dates)

\* the per-day worker is about to request a date that a row stored earlier in
\* the same pass covers: check_pv_system_status lets a timestamp of the day
\* after the requested date through, and the list of dates is not computed
\* again within a pass
RequestedDateCoveredDuringPass ==
    PerDayStep /\ IsCovered(store, cur_system, Head(worker_dates))

=============================================================================
